---- MODULE Spec2Model ----
(***************************************************************************)
(* Model of src/main.py: a command-line chat loop that sends each line of  *)
(* input to an analytical endpoint (get_factual_answer_from_qwen) and, on  *)
(* success, sends the answer to a persona endpoint (restyle_text_with_pi). *)
(*                                                                         *)
(* Strings that the program inspects or splices (the input line, the text  *)
(* of an answer, the user message of the persona request) are sequences of *)
(* one-character strings; fixed texts that are only passed along (system   *)
(* prompts, URLs, labels) are TLA+ strings.  Python values are tagged      *)
(* records: [t |-> "None"], [t |-> "str", v |-> chars], [t |-> "int", ..], *)
(* [t |-> "list", v |-> sequence], [t |-> "dict", v |-> record].           *)
(***************************************************************************)
EXTENDS Naturals, Sequences, FiniteSets

VARIABLES
    cfg,            \* module constants read from the environment (lines 9-13)
    name,           \* __name__ of the module: "__main__" or an importing module
    pc,             \* position of the interpreter in the module / main loop
    user_input,     \* local of the main loop (line 152)
    qwen_response,  \* local of the main loop (line 160); kept across iterations
    pi_response,    \* local of the main loop (line 169); kept across iterations
    events,         \* console and network events since the last prompt / call
    uncaught,       \* the exception that ended the process or the call, if any
    earlier         \* history: one request of an earlier turn, with that turn's inputs

vars == <<cfg, name, pc, user_input, qwen_response, pi_response, events, uncaught,
          earlier>>

-----------------------------------------------------------------------------
(* Python values *)

PyNone == [t |-> "None"]
PyStr(s) == [t |-> "str", v |-> s]
PyInt(n) == [t |-> "int", v |-> n]
PyList(s) == [t |-> "list", v |-> s]
PyDict(r) == [t |-> "dict", v |-> r]
Unbound == [t |-> "unbound"]

\* The result of evaluating an expression: a value or a raised exception.
Ok(val) == [exc |-> "none", val |-> val]
Raise(e) == [exc |-> e, val |-> PyNone]

\* x[key] for a string key (dict lookup; every other type rejects a str index).
GetKey(x, key) ==
    IF x.t = "dict"
    THEN IF key \in DOMAIN x.v THEN Ok(x.v[key]) ELSE Raise("KeyError")
    ELSE Raise("TypeError")

\* x[i] for an integer index, 0-based (JSON object keys are strings, so a
\* dict never holds the key 0).
GetIndex(x, i) ==
    CASE x.t = "dict" -> Raise("KeyError")
      [] x.t = "list" -> IF i < Len(x.v) THEN Ok(x.v[i + 1]) ELSE Raise("IndexError")
      [] x.t = "str"  -> IF i < Len(x.v) THEN Ok(PyStr(<<x.v[i + 1]>>)) ELSE Raise("IndexError")
      [] OTHER        -> Raise("TypeError")

\* response_data["choices"][0]["message"]["content"]   (lines 58, 128)
ExtractContent(response_data) ==
    LET a == GetKey(response_data, "choices") IN
    IF a.exc # "none" THEN a ELSE
    LET b == GetIndex(a.val, 0) IN
    IF b.exc # "none" THEN b ELSE
    LET c == GetKey(b.val, "message") IN
    IF c.exc # "none" THEN c ELSE
    GetKey(c.val, "content")

-----------------------------------------------------------------------------
(* Exceptions: the classes the handlers name and the ones the calls raise *)

\* The classes each raised exception is an instance of.
Bases(e) ==
    CASE e = "ConnectionError"         -> {"ConnectionError", "RequestException", "Exception"}
      [] e = "TooManyRedirects"        -> {"RequestException", "Exception"}
      [] e = "HTTPError"               -> {"RequestException", "Exception"}
      [] e = "requests.JSONDecodeError" -> {"RequestException", "Exception"}
      [] e = "json.JSONDecodeError"    -> {"Exception"}
      [] e = "KeyError"                -> {"KeyError", "Exception"}
      [] e = "IndexError"              -> {"Exception"}
      [] e = "TypeError"               -> {"Exception"}
      [] e = "ValueError"              -> {"Exception"}
      [] OTHER                         -> {}

\* Handler without the last clause, except Exception.
HandlerNoCatchAll(e) ==
    CASE "ConnectionError" \in Bases(e)  -> "Connection error occurred: "
      [] "RequestException" \in Bases(e) -> "Request error occurred: "
      [] "KeyError" \in Bases(e)         -> "Error parsing response: missing key "
      [] OTHER                           -> ""

\* The except clauses of lines 60-71 and 130-141, in order: the diagnostic
\* printed by the first clause that matches, "" when none does.
Handler(e) ==
    CASE "ConnectionError" \in Bases(e)  -> "Connection error occurred: "
      [] "RequestException" \in Bases(e) -> "Request error occurred: "
      [] "KeyError" \in Bases(e)         -> "Error parsing response: missing key "
      [] "Exception" \in Bases(e)        -> "Unexpected error occurred: "
      [] OTHER                           -> ""

-----------------------------------------------------------------------------
(* Strings *)

UpperCase == <<"A","B","C","D","E","F","G","H","I","J","K","L","M",
               "N","O","P","Q","R","S","T","U","V","W","X","Y","Z">>
LowerCase == <<"a","b","c","d","e","f","g","h","i","j","k","l","m",
               "n","o","p","q","r","s","t","u","v","w","x","y","z">>

LowerChar(c) ==
    IF \E i \in DOMAIN UpperCase : UpperCase[i] = c
    THEN LowerCase[CHOOSE i \in DOMAIN UpperCase : UpperCase[i] = c]
    ELSE c

\* str.lower()   (line 155)
Lower(s) == [i \in DOMAIN s |-> LowerChar(s[i])]

Digit(d) == <<"0","1","2","3","4","5","6","7","8","9">>[d + 1]

RECURSIVE Decimal(_)
Decimal(n) == IF n < 10 THEN <<Digit(n)>> ELSE Decimal(n \div 10) \o <<Digit(n % 10)>>

\* What an f-string replacement field {x} yields for the values the
\* endpoints can hand back as content.
Format(x) ==
    CASE x.t = "str"  -> x.v
      [] x.t = "int"  -> Decimal(x.v)
      [] x.t = "None" -> <<"N","o","n","e">>
      [] OTHER        -> <<"?">>

-----------------------------------------------------------------------------
(* The HTTP exchange: requests.post, raise_for_status, response.json *)

\* Response.raise_for_status(): HTTPError for 4xx and 5xx, nothing otherwise.
RaiseForStatus(status) == 400 <= status /\ status < 600

\* The try block of lines 52-58 / 122-128 on one outcome of the exchange:
\* the extracted content, or the exception raised on the way.
TryBlock(outcome) ==
    IF outcome.raised # "none" THEN Raise(outcome.raised)
    ELSE IF RaiseForStatus(outcome.status) THEN Raise("HTTPError")
    ELSE IF ~outcome.body.json THEN Raise(outcome.body.decodeExc)
    ELSE ExtractContent(outcome.body.data)

\* try/except of lines 51-71 / 121-141 around a request already described by
\* the event `post`: what is returned or raised, and the events of the call
\* (the request, the outcome of the exchange, the diagnostic printed).
TryExcept(post, outcome) ==
    LET r == TryBlock(outcome) IN
    LET exchange == <<post, [ev |-> "response", outcome |-> outcome]>> IN
    IF r.exc = "none"
    THEN [exc |-> "none", ret |-> r.val, events |-> exchange]
    ELSE IF Handler(r.exc) # ""
    THEN [exc |-> "none", ret |-> PyNone,
          events |-> exchange \o <<[ev |-> "print", what |-> "diag",
                                    text |-> Handler(r.exc), e |-> r.exc]>>]
    ELSE [exc |-> r.exc, ret |-> PyNone, events |-> exchange]

QwenSystemPrompt == "You are Qwen, the analytical reasoning engine powering Pi's responses. ..."
PiSystemPrompt == "You are Pi, an AI assistant known for your friendly, supportive, and conversational tone. ..."

QwenMaxTokens == 32768
PiMaxTokens == 1024

Headers(key) ==
    [Authorization |-> <<"Bearer ", key>>, ContentType |-> "application/json"]

\* QwenMessages carrying the previous answer along, as a conversation would.
QwenMessagesWithMemory(user_query) ==
    << [role |-> "system", content |-> QwenSystemPrompt] >>
    \o (IF qwen_response.t \in {"unbound", "None"} THEN <<>>
        ELSE << [role |-> "assistant", content |-> qwen_response] >>)
    \o << [role |-> "user", content |-> user_query] >>

\* lines 26-35
QwenMessages(user_query) ==
    << [role |-> "system", content |-> QwenSystemPrompt],
       [role |-> "user", content |-> user_query] >>

\* lines 38-43
QwenPayload(user_query) ==
    [model |-> cfg.VLLM_MODEL_NAME, messages |-> QwenMessages(user_query),
     max_tokens |-> QwenMaxTokens, temperature |-> "0.0"]

\* get_factual_answer_from_qwen(user_query), lines 15-71, when the exchange
\* with the endpoint goes as `outcome`.
get_factual_answer_from_qwen(user_query, outcome) ==
    TryExcept([ev |-> "post", endpoint |-> "qwen", url |-> cfg.VLLM_URL,
               json |-> QwenPayload(user_query),
               headers |-> Headers(cfg.VLLM_API_KEY)],
              outcome)

PiUrlV1 == "https://api.inflection.ai/external/api/inference/openai/v1/chat/completions"
PiUrlV2 == "https://api.inflection.ai/v1/chat/completions"

\* PiUrl with the else branch falling back to the default endpoint.
PiUrlFallback(pi_version) ==
    IF pi_version = "inflection_3_pi"
    THEN "https://api.inflection.ai/external/api/inference/openai/v1/chat/completions"
    ELSE "https://api.inflection.ai/v1/chat/completions"

\* lines 85-90: the endpoint of a persona version, "" for the raise of line 90
PiUrl(pi_version) ==
    CASE pi_version = "inflection_3_pi" -> PiUrlV1
      [] pi_version = "Pi-3.1"          -> PiUrlV2
      [] OTHER                          -> ""

Chars(s1, s2, s3, s4, s5, s6) == s1 \o s2 \o s3 \o s4 \o s5 \o s6

\* "Original user question: "
QuestionLabel ==
    Chars(<<"O","r","i","g">>, <<"i","n","a","l">>, <<" ","u","s","e","r">>,
          <<" ","q","u","e">>, <<"s","t","i","o","n">>, <<":"," ">>)

\* "\n\nQwen's factual response to restyle:\n"
ResponseLabel ==
    Chars(<<"\n","\n","Q","w","e","n","'","s">>, <<" ","f","a","c","t","u","a","l">>,
          <<" ","r","e","s","p","o","n","s","e">>, <<" ","t","o">>,
          <<" ","r","e","s","t","y","l","e">>, <<":","\n">>)

\* PiUserContent with the factual text cut to its first four characters.
PiUserContentTruncated(text_to_restyle, original_query) ==
    LET text == Format(text_to_restyle) IN
    PyStr(QuestionLabel \o Format(original_query) \o ResponseLabel
            \o (IF Len(text) > 4 THEN SubSeq(text, 1, 4) ELSE text))

\* line 101: the f-string of the user message
PiUserContent(text_to_restyle, original_query) ==
    PyStr(QuestionLabel \o Format(original_query) \o ResponseLabel \o Format(text_to_restyle))

\* lines 94-103
PiMessages(text_to_restyle, original_query) ==
    << [role |-> "system", content |-> PiSystemPrompt],
       [role |-> "user", content |-> PiUserContent(text_to_restyle, original_query)] >>

\* lines 105-113
PiPayload(text_to_restyle, original_query, pi_version) ==
    [model |-> pi_version, messages |-> PiMessages(text_to_restyle, original_query),
     max_tokens |-> PiMaxTokens, temperature |-> "0.7"]

\* restyle_text_with_pi(text_to_restyle, original_query, pi_version),
\* lines 73-141, when the exchange with the endpoint goes as `outcome`.
restyle_text_with_pi(text_to_restyle, original_query, pi_version, outcome) ==
    IF PiUrl(pi_version) = ""
    THEN [exc |-> "ValueError", ret |-> PyNone, events |-> <<>>]
    ELSE TryExcept([ev |-> "post", endpoint |-> "pi", url |-> PiUrl(pi_version),
                    json |-> PiPayload(text_to_restyle, original_query, pi_version),
                    headers |-> Headers(cfg.PI_API_KEY)],
                   outcome)

-----------------------------------------------------------------------------
(* The environment: what the operator types and what the endpoints do *)

Exit == <<"e","x","i","t">>

UpperChar(c) ==
    IF \E i \in DOMAIN LowerCase : LowerCase[i] = c
    THEN UpperCase[CHOOSE i \in DOMAIN LowerCase : LowerCase[i] = c]
    ELSE c

\* Every spelling of the exit command: exit, Exit, eXit, ..., EXIT.
ExitSpellings ==
    { [i \in DOMAIN Exit |-> IF i \in S THEN UpperChar(Exit[i]) ELSE Exit[i]] :
        S \in SUBSET (DOMAIN Exit) }

\* The most blanks put before or after the exit command.
MaxPad == 1

Blanks(k) == [i \in 1..k |-> " "]

\* Lines that are not the exit command: the empty line, a question, a
\* prefix of the command, and the command with blanks around it.
Queries ==
    { <<>>, <<"H","i","?">>, <<"e","x","i">> } \cup
    { Blanks(k) \o Exit : k \in 1..MaxPad } \cup
    { <<"E","X","I","T">> \o Blanks(k) : k \in 1..MaxPad }

UserInputs == ExitSpellings \cup Queries

\* Texts an endpoint may return as choices[0].message.content.
Contents == { PyStr(<<"P","a","r","i","s">>), PyStr(<<>>), PyInt(42), PyNone }

Completion(content) ==
    PyDict([choices |-> PyList(<< PyDict([message |-> PyDict([content |-> content])]) >>)])

\* Parsed JSON bodies: well-formed completions and the malformed shapes.
JsonData ==
    { Completion(c) : c \in Contents } \cup
    { PyDict([error |-> PyStr(<<"n","o">>)]),
      PyDict([choices |-> PyList(<<>>)]),
      PyDict([choices |-> PyNone]),
      PyDict([choices |-> PyDict([first |-> PyNone])]),
      PyDict([choices |-> PyList(<< PyDict([index |-> PyInt(0)]) >>)]),
      PyDict([choices |-> PyList(<< PyDict([message |-> PyNone]) >>)]),
      PyDict([choices |-> PyList(<< PyDict([message |-> PyDict([role |-> PyStr(<<"a">>)])]) >>)]),
      PyList(<<>>),
      PyStr(<<"o","k">>) }

\* response.json() on a body that is not JSON raises requests' JSONDecodeError
\* (a RequestException) from requests 2.27 on and json's (a ValueError only)
\* before; the repository pins no version.
Bodies ==
    { [json |-> TRUE, decodeExc |-> "none", data |-> d] : d \in JsonData } \cup
    { [json |-> FALSE, decodeExc |-> x, data |-> PyNone] :
        x \in {"requests.JSONDecodeError", "json.JSONDecodeError"} }

\* Bodies tried with every status: an error object, a page that is no JSON,
\* and a well-formed completion.
CommonBodies ==
    { [json |-> TRUE, decodeExc |-> "none", data |-> d] :
        d \in {PyDict([error |-> PyStr(<<"n","o">>)]), Completion(PyStr(<<"P","a","r","i","s">>))} } \cup
    { [json |-> FALSE, decodeExc |-> "requests.JSONDecodeError", data |-> PyNone] }

\* 300 stands for the statuses below 400 that requests hands back unfollowed.
OtherStatuses == {300, 404, 500}

\* requests.post either raises or returns a response.
PostRaises == {"ConnectionError", "TooManyRedirects"}

Outcomes ==
    { [raised |-> x, status |-> 0, body |-> [json |-> FALSE, decodeExc |-> "none", data |-> PyNone]] :
        x \in PostRaises } \cup
    { [raised |-> "none", status |-> 200, body |-> b] : b \in Bodies } \cup
    { [raised |-> "none", status |-> st, body |-> b] : st \in OtherStatuses, b \in CommonBodies }

PiVersions == {"inflection_3_pi", "Pi-3.1"}

\* os.getenv results (lines 9-13); PI_VERSION may be set to anything.
Configs ==
    { [VLLM_API_KEY |-> "vllm-key", VLLM_URL |-> "http://vllm/v1/chat/completions",
       VLLM_MODEL_NAME |-> "qwen", PI_API_KEY |-> "pi-key", PI_VERSION |-> v] :
        v \in PiVersions \cup {"bogus"} }

-----------------------------------------------------------------------------
(* The module body and the main loop *)

Printed(what, text) == [ev |-> "print", what |-> what, text |-> text]
CallEv(fn, args) == [ev |-> "call", fn |-> fn, args |-> args]
ReturnEv(fn, r) == [ev |-> "return", fn |-> fn, exc |-> r.exc, ret |-> r.ret]

NoEarlier == [endpoint |-> "none"]

PostsOfTurn == { i \in DOMAIN events : events[i].ev = "post" }

\* What is remembered of the request at position i of the turn that ends:
\* the endpoint, the turn's input and factual answer, and the request.
Remember(i) ==
    [endpoint |-> events[i].endpoint, query |-> user_input,
     text |-> IF events[i].endpoint = "pi" THEN qwen_response ELSE PyNone,
     post |-> events[i]]

Init ==
    /\ cfg \in Configs
    /\ name \in {"__main__", "importer"}
    /\ pc = "loaded"
    /\ user_input = Unbound
    /\ qwen_response = Unbound
    /\ pi_response = Unbound
    /\ events = <<>>
    /\ uncaught = "none"
    /\ earlier = NoEarlier

\* line 143
MainGuard ==
    /\ pc = "loaded"
    /\ pc' = IF name = "__main__" THEN "check_version" ELSE "imported"
    /\ UNCHANGED <<cfg, name, user_input, qwen_response, pi_response, events, uncaught, earlier>>

\* line 145
ValidVersion(v) == ~(v # "Pi-3.1" /\ v # "inflection_3_pi")

\* lines 145-148
CheckVersion ==
    /\ pc = "check_version"
    /\ IF ValidVersion(cfg.PI_VERSION)
       THEN /\ events' = <<Printed("banner", cfg.PI_VERSION)>>
            /\ pc' = "prompt"
            /\ UNCHANGED uncaught
       ELSE /\ pc' = "crashed"
            /\ uncaught' = "ValueError"
            /\ UNCHANGED events
    /\ UNCHANGED <<cfg, name, user_input, qwen_response, pi_response, earlier>>

\* IsExit without the call of lower().
IsExitCaseSensitive(line) == line = Exit

\* line 155
IsExit(line) == Lower(line) = Exit

\* lines 152-159: input() returns a line
ReadInput ==
    /\ pc = "prompt"
    /\ \E line \in UserInputs :
        /\ user_input' = PyStr(line)
        /\ IF IsExit(line)
           THEN /\ events' = <<Printed("prompt", "\nYou: "), [ev |-> "read", line |-> line]>>
                /\ pc' = "terminated"
           ELSE /\ events' = <<Printed("prompt", "\nYou: "), [ev |-> "read", line |-> line],
                               Printed("label", "\nThinking with Qwen's brain...")>>
                /\ pc' = "call_qwen"
    /\ earlier' \in {earlier} \cup { Remember(i) : i \in PostsOfTurn }
    /\ UNCHANGED <<cfg, name, qwen_response, pi_response, uncaught>>

\* line 152: input() meets end of file and raises EOFError; nothing catches it
ReadEOF ==
    /\ pc = "prompt"
    /\ events' = <<Printed("prompt", "\nYou: ")>>
    /\ pc' = "crashed"
    /\ uncaught' = "EOFError"
    /\ UNCHANGED <<cfg, name, user_input, qwen_response, pi_response, earlier>>

\* line 160
CallQwen ==
    /\ pc = "call_qwen"
    /\ \E o \in Outcomes :
        LET r == get_factual_answer_from_qwen(user_input, o) IN
        /\ events' = events \o <<CallEv("get_factual_answer_from_qwen", <<user_input>>)>>
                            \o r.events
                            \o <<ReturnEv("get_factual_answer_from_qwen", r)>>
        /\ IF r.exc = "none"
           THEN /\ qwen_response' = r.ret
                /\ pc' = "after_qwen"
                /\ UNCHANGED uncaught
           ELSE /\ pc' = "crashed"
                /\ uncaught' = r.exc
                /\ UNCHANGED qwen_response
    /\ UNCHANGED <<cfg, name, user_input, pi_response, earlier>>

\* AfterQwen without the test of line 162: the answer is used whatever it is.
AfterQwenNoTest ==
    /\ pc = "after_qwen"
    /\ events' = events \o <<Printed("label", "\nQwen Response:"),
                             Printed("qwen_response", qwen_response),
                             Printed("label", "\nAdding Pi's friendly voice...")>>
    /\ pc' = "call_pi"
    /\ UNCHANGED <<cfg, name, user_input, qwen_response, pi_response, uncaught, earlier>>

\* lines 162-168
AfterQwen ==
    /\ pc = "after_qwen"
    /\ IF qwen_response # PyNone
       THEN /\ events' = events \o <<Printed("label", "\nQwen Response:"),
                                     Printed("qwen_response", qwen_response),
                                     Printed("label", "\nAdding Pi's friendly voice...")>>
            /\ pc' = "call_pi"
       ELSE /\ pc' = "prompt"
            /\ UNCHANGED events
    /\ UNCHANGED <<cfg, name, user_input, qwen_response, pi_response, uncaught, earlier>>

\* CallPi with the first two arguments of line 169 exchanged.
CallPiSwapped ==
    /\ pc = "call_pi"
    /\ \E o \in Outcomes :
        LET r == restyle_text_with_pi(user_input, qwen_response, cfg.PI_VERSION, o) IN
        /\ events' = events \o <<CallEv("restyle_text_with_pi",
                                        <<user_input, qwen_response, cfg.PI_VERSION>>)>>
                            \o r.events
                            \o <<ReturnEv("restyle_text_with_pi", r)>>
        /\ IF r.exc = "none"
           THEN /\ pi_response' = r.ret
                /\ pc' = "after_pi"
                /\ UNCHANGED uncaught
           ELSE /\ pc' = "crashed"
                /\ uncaught' = r.exc
                /\ UNCHANGED pi_response
    /\ UNCHANGED <<cfg, name, user_input, qwen_response, earlier>>

\* line 169
CallPi ==
    /\ pc = "call_pi"
    /\ \E o \in Outcomes :
        LET r == restyle_text_with_pi(qwen_response, user_input, cfg.PI_VERSION, o) IN
        /\ events' = events \o <<CallEv("restyle_text_with_pi",
                                        <<qwen_response, user_input, cfg.PI_VERSION>>)>>
                            \o r.events
                            \o <<ReturnEv("restyle_text_with_pi", r)>>
        /\ IF r.exc = "none"
           THEN /\ pi_response' = r.ret
                /\ pc' = "after_pi"
                /\ UNCHANGED uncaught
           ELSE /\ pc' = "crashed"
                /\ uncaught' = r.exc
                /\ UNCHANGED pi_response
    /\ UNCHANGED <<cfg, name, user_input, qwen_response, earlier>>

\* lines 171-173
AfterPi ==
    /\ pc = "after_pi"
    /\ IF pi_response # PyNone
       THEN events' = events \o <<Printed("label", "\nPi-Style Response:"),
                                  Printed("pi_response", pi_response)>>
       ELSE UNCHANGED events
    /\ pc' = "prompt"
    /\ UNCHANGED <<cfg, name, user_input, qwen_response, pi_response, uncaught, earlier>>

-----------------------------------------------------------------------------
(* The module imported: its two functions called by other code *)

ApiTexts == { PyStr(<<"P","a","r","i","s">>), PyStr(<<>>) }
ApiQueries == { PyStr(<<"H","i","?">>), PyStr(Exit) }
ApiVersions == PiVersions \cup {"bogus", "pi-3.1", ""}

\* get_factual_answer_from_qwen(q) called from importing code
ApiCallQwen ==
    /\ pc = "imported"
    /\ \E q \in ApiQueries, o \in Outcomes :
        LET r == get_factual_answer_from_qwen(q, o) IN
        /\ events' = <<CallEv("get_factual_answer_from_qwen", <<q>>)>> \o r.events
                        \o <<ReturnEv("get_factual_answer_from_qwen", r)>>
        /\ uncaught' = r.exc
    /\ UNCHANGED <<cfg, name, pc, user_input, qwen_response, pi_response, earlier>>

\* restyle_text_with_pi(text, q, v) called from importing code
ApiCallPi ==
    /\ pc = "imported"
    /\ \E text \in ApiTexts, q \in ApiQueries, v \in ApiVersions, o \in Outcomes :
        LET r == restyle_text_with_pi(text, q, v, o) IN
        /\ events' = <<CallEv("restyle_text_with_pi", <<text, q, v>>)>> \o r.events
                        \o <<ReturnEv("restyle_text_with_pi", r)>>
        /\ uncaught' = r.exc
    /\ UNCHANGED <<cfg, name, pc, user_input, qwen_response, pi_response, earlier>>

Next ==
    \/ MainGuard
    \/ CheckVersion
    \/ ReadInput
    \/ ReadEOF
    \/ CallQwen
    \/ AfterQwen
    \/ CallPi
    \/ AfterPi
    \/ ApiCallQwen
    \/ ApiCallPi

Spec == Init /\ [][Next]_vars

-----------------------------------------------------------------------------
(* Reading the events of the current turn / call *)

Session == name = "__main__"

QWEN == "get_factual_answer_from_qwen"
PI == "restyle_text_with_pi"

IsCall(i, fn) == events[i].ev = "call" /\ events[i].fn = fn
IsReturn(i, fn) == events[i].ev = "return" /\ events[i].fn = fn
IsPost(i, endpoint) == events[i].ev = "post" /\ events[i].endpoint = endpoint
IsResponse(i) == events[i].ev = "response"
IsDiag(i) == events[i].ev = "print" /\ events[i].what = "diag"
IsRead(i) == events[i].ev = "read"
IsPrinted(i, what) == events[i].ev = "print" /\ events[i].what = what

Calls(fn) == { i \in DOMAIN events : IsCall(i, fn) }
Returns(fn) == { i \in DOMAIN events : IsReturn(i, fn) }
Posts(endpoint) == { i \in DOMAIN events : IsPost(i, endpoint) }

\* The return that ends the call at position i.
ReturnOf(i) == CHOOSE j \in DOMAIN events :
                   /\ j > i
                   /\ events[j].ev = "return"
                   /\ \A k \in DOMAIN events : (i < k /\ k < j) => events[k].ev # "return"

Returned(i) == \E j \in DOMAIN events : j > i /\ events[j].ev = "return"

\* The outcome of the exchange made by the call at position i, if it made one.
Exchanged(i) == Returned(i) /\ \E k \in DOMAIN events : i < k /\ k < ReturnOf(i) /\ IsResponse(k)
OutcomeOf(i) == events[CHOOSE k \in DOMAIN events : i < k /\ k < ReturnOf(i) /\ IsResponse(k)].outcome

DiagsOf(i) == { k \in DOMAIN events : i < k /\ k < ReturnOf(i) /\ IsDiag(k) }

AnyCall == Calls(QWEN) \cup Calls(PI)

-----------------------------------------------------------------------------
(* C1 *)

QwenReturnedNone == \E j \in Returns(QWEN) : events[j].exc = "none" /\ events[j].ret = PyNone

\* C1: in a turn of the session in which get_factual_answer_from_qwen
\* returned None, restyle_text_with_pi is not called, no request goes to the
\* persona endpoint, and the session is on its way back to the prompt or at it.
C1_NoRestyleAfterAbsent ==
    (Session /\ QwenReturnedNone) =>
        /\ Calls(PI) = {}
        /\ Posts("pi") = {}
        /\ pc \in {"after_qwen", "prompt"}

C1_Witness == Session /\ QwenReturnedNone /\ pc = "prompt"

-----------------------------------------------------------------------------
(* C3 *)

Recognized == {"inflection_3_pi", "Pi-3.1"}

\* C3: a call of restyle_text_with_pi with an unrecognized persona version
\* raises ValueError out of the function with no request sent, and a process
\* started with an unrecognized PI_VERSION ends with ValueError before any
\* output, prompt or request.
C3_ConfigErrorBeforeNetwork ==
    /\ \A i \in Calls(PI) :
          events[i].args[3] \notin Recognized =>
              /\ i + 1 \in DOMAIN events
              /\ IsReturn(i + 1, PI)
              /\ events[i + 1].exc = "ValueError"
    /\ (Session /\ cfg.PI_VERSION \notin Recognized /\ pc \notin {"loaded", "check_version"}) =>
          /\ pc = "crashed"
          /\ uncaught = "ValueError"
          /\ events = <<>>

C3_Witness ==
    \E i \in Calls(PI) :
        /\ events[i].args[3] \notin Recognized
        /\ events[i + 1].exc = "ValueError"
        /\ uncaught = "ValueError"

-----------------------------------------------------------------------------
(* C4 *)

\* C4: the process ends with an unhandled error only for the persona-version
\* misconfiguration, that is, at startup and before any output.
C4_OnlyMisconfigurationCrashes ==
    pc = "crashed" =>
        /\ uncaught = "ValueError"
        /\ cfg.PI_VERSION \notin Recognized
        /\ events = <<>>

-----------------------------------------------------------------------------
(* C5 *)

\* line is "exit" up to the case of its letters
SpellsExit(line) ==
    /\ Len(line) = 4
    /\ line[1] \in {"e", "E"}
    /\ line[2] \in {"x", "X"}
    /\ line[3] \in {"i", "I"}
    /\ line[4] \in {"t", "T"}

Reads == { i \in DOMAIN events : IsRead(i) }

C5_State ==
    Session =>
        /\ \A i \in Reads :
              IF SpellsExit(events[i].line)
              THEN /\ pc = "terminated"
                   /\ Len(events) = i
                   /\ Calls(QWEN) \cup Calls(PI) \cup Posts("qwen") \cup Posts("pi") = {}
              ELSE pc \in {"call_qwen", "after_qwen", "call_pi", "after_pi", "prompt"}
        /\ Cardinality(Reads) <= 1
        /\ pc = "terminated" => Reads # {}
        /\ pc \in {"call_qwen", "after_qwen", "call_pi", "after_pi"} => Reads # {}

\* C5: a line that spells exit in any case ends the session with nothing
\* printed, called or read after it; any other line starts one turn, which
\* stays inside the loop; a terminated session takes no further step.
C5_ExitTerminates ==
    /\ []C5_State
    /\ [][pc = "terminated" => FALSE]_vars

C5_Witness ==
    /\ pc = "terminated"
    /\ \E i \in Reads : events[i].line = <<"E","x","I","T">>

-----------------------------------------------------------------------------
(* C2 *)

Status2xx(st) == 200 <= st /\ st < 300

\* The body is JSON of the expected shape {choices: [{message: {content}}]}.
WellFormed(body) ==
    /\ body.json
    /\ body.data.t = "dict"
    /\ "choices" \in DOMAIN body.data.v
    /\ body.data.v.choices.t = "list"
    /\ body.data.v.choices.v # <<>>
    /\ body.data.v.choices.v[1].t = "dict"
    /\ "message" \in DOMAIN body.data.v.choices.v[1].v
    /\ body.data.v.choices.v[1].v.message.t = "dict"
    /\ "content" \in DOMAIN body.data.v.choices.v[1].v.message.v

\* The failures the claim lists, a non-2xx status among them.
ListedFailure(o) ==
    \/ o.raised # "none"
    \/ ~Status2xx(o.status)
    \/ ~WellFormed(o.body)

\* The same with "a 4xx or 5xx status" in the place of "a non-2xx status".
RejectedFailure(o) ==
    \/ o.raised # "none"
    \/ o.status >= 400
    \/ ~WellFormed(o.body)

NoCrashInTurn == (Session /\ pc = "crashed") => AnyCall = {}

-----------------------------------------------------------------------------
(* C6 *)

PrintedAnswer == \E i \in DOMAIN events : IsPrinted(i, "pi_response")

\* C6: a call that returns None has written exactly one diagnostic, a call
\* that returns an answer none; a finished turn that printed no styled
\* answer shows a diagnostic.
C6_DiagnosticIffAbsent ==
    /\ \A i \in AnyCall :
          (Returned(i) /\ events[ReturnOf(i)].exc = "none") =>
              IF events[ReturnOf(i)].ret = PyNone
              THEN Cardinality(DiagsOf(i)) = 1
              ELSE DiagsOf(i) = {}
    /\ (Session /\ pc = "prompt" /\ Reads # {} /\ ~PrintedAnswer) =>
          \E k \in DOMAIN events : IsDiag(k)

-----------------------------------------------------------------------------
(* C10 *)

\* The JSON lacks an expected field: choices, its first element, message or
\* content.
MissingField(body) ==
    /\ body.json
    /\ body.data.t = "dict"
    /\ \/ "choices" \notin DOMAIN body.data.v
       \/ /\ body.data.v.choices.t = "list"
          /\ \/ body.data.v.choices.v = <<>>
             \/ /\ body.data.v.choices.v[1].t = "dict"
                /\ \/ "message" \notin DOMAIN body.data.v.choices.v[1].v
                   \/ /\ body.data.v.choices.v[1].v.message.t = "dict"
                      /\ "content" \notin DOMAIN body.data.v.choices.v[1].v.message.v

TransportKind(o) == o.raised = "ConnectionError"
StatusKind(o) == o.raised = "none" /\ ~Status2xx(o.status)
ShapeKind(o) == o.raised = "none" /\ Status2xx(o.status) /\ MissingField(o.body)

DiagTextOf(i) == events[CHOOSE k \in DiagsOf(i) : TRUE].text

\* C10: in both functions a transport failure prints the connection-error
\* diagnostic, a non-2xx status the request-error diagnostic, a JSON body
\* lacking an expected field the parse-error diagnostic, and the
\* unexpected-error diagnostic is printed for no failure of these kinds; a
\* call prints at most one diagnostic.
C10_FourWayClassification ==
    \A i \in AnyCall :
        Exchanged(i) =>
            /\ Cardinality(DiagsOf(i)) <= 1
            /\ TransportKind(OutcomeOf(i)) =>
                  (DiagsOf(i) # {} /\ DiagTextOf(i) = "Connection error occurred: ")
            /\ StatusKind(OutcomeOf(i)) =>
                  (DiagsOf(i) # {} /\ DiagTextOf(i) = "Request error occurred: ")
            /\ ShapeKind(OutcomeOf(i)) =>
                  (DiagsOf(i) # {} /\ DiagTextOf(i) = "Error parsing response: missing key ")
            /\ (DiagsOf(i) # {} /\ DiagTextOf(i) = "Unexpected error occurred: ") =>
                  ~(TransportKind(OutcomeOf(i)) \/ StatusKind(OutcomeOf(i)) \/ ShapeKind(OutcomeOf(i)))

-----------------------------------------------------------------------------
(* C7 *)

\* a occurs in b as a contiguous run
IsSubstring(a, b) ==
    \E k \in 0..(Len(b) - Len(a)) : SubSeq(b, k + 1, k + Len(a)) = a

AllPosts == Posts("qwen") \cup Posts("pi")

\* C7: every request carries exactly two messages, a system message then a
\* user message; the user message of get_factual_answer_from_qwen is the
\* query, and that of restyle_text_with_pi holds the original query and the
\* factual text, each whole and unchanged.
C7_PayloadShape ==
    /\ \A k \in AllPosts :
          /\ Len(events[k].json.messages) = 2
          /\ events[k].json.messages[1].role = "system"
          /\ events[k].json.messages[2].role = "user"
    /\ \A i \in Calls(QWEN) :
          (i + 1 \in Posts("qwen")) =>
              events[i + 1].json.messages[2].content = events[i].args[1]
    /\ \A i \in Calls(PI) :
          (i + 1 \in Posts("pi") /\ events[i].args[1].t = "str" /\ events[i].args[2].t = "str") =>
              /\ IsSubstring(events[i].args[1].v, events[i + 1].json.messages[2].content.v)
              /\ IsSubstring(events[i].args[2].v, events[i + 1].json.messages[2].content.v)

C7_Witness ==
    /\ Session
    /\ \E i \in Calls(PI) :
          /\ i + 1 \in Posts("pi")
          /\ events[i].args[1] = PyStr(<<"P","a","r","i","s">>)
          /\ events[i].args[2] = PyStr(<<"H","i","?">>)

-----------------------------------------------------------------------------
(* C8 *)

C8_State ==
    Session =>
        /\ \A k \in Posts("qwen") :
              /\ events[k].json.max_tokens = 32768
              /\ events[k].json.temperature = "0.0"
              /\ (earlier.endpoint = "qwen" /\ earlier.query = user_input) =>
                    earlier.post = events[k]
        /\ \A k \in Posts("pi") :
              /\ events[k].json.max_tokens = 1024
              /\ events[k].json.temperature = "0.7"
              /\ (earlier.endpoint = "pi" /\ earlier.query = user_input
                    /\ earlier.text = qwen_response) =>
                    earlier.post = events[k]

\* C8: a request to the analytical endpoint equals every request an earlier
\* turn sent there for the same input, a request to the persona endpoint
\* equals every request an earlier turn sent there for the same input and
\* factual answer, whatever happened in between; max_tokens and temperature
\* are 32768 and 0.0, 1024 and 0.7; the configuration never changes.
C8_StatelessTurns ==
    /\ []C8_State
    /\ [][cfg' = cfg]_vars

C8_Witness ==
    /\ Session
    /\ earlier.endpoint = "qwen"
    /\ earlier.query = user_input
    /\ qwen_response.t = "str"
    /\ pi_response = PyNone
    /\ pc = "after_qwen"
    /\ Posts("qwen") # {}

-----------------------------------------------------------------------------
(* C9 *)

\* C9: in a turn there is one read, at its start, at most one request to each
\* endpoint and at most one call of each function; restyle_text_with_pi is
\* called only after get_factual_answer_from_qwen returned an answer and that
\* answer was printed, with that answer, the line read and PI_VERSION as
\* arguments; a styled answer is printed only after restyle_text_with_pi
\* returned it; the prompt is reached again only when the analytical call
\* returned None or the persona call returned.
C9_TurnOrder ==
    Session =>
        /\ Cardinality(Posts("qwen")) <= 1
        /\ Cardinality(Posts("pi")) <= 1
        /\ Cardinality(Calls(QWEN)) <= 1
        /\ Cardinality(Calls(PI)) <= 1
        /\ \A i \in Reads : i = 2 /\ Cardinality(Reads) = 1
        /\ \A k \in Posts("qwen") : \E i \in Calls(QWEN) : i < k /\ \A m \in Posts("pi") : k < m
        /\ \A i \in Calls(PI) :
              \E j \in Returns(QWEN), p \in DOMAIN events :
                  /\ j < p /\ p < i
                  /\ events[j].exc = "none"
                  /\ events[j].ret # PyNone
                  /\ IsPrinted(p, "qwen_response")
                  /\ events[p].text = events[j].ret
                  /\ events[i].args = <<events[j].ret, PyStr(events[2].line), cfg.PI_VERSION>>
        /\ \A p \in DOMAIN events :
              IsPrinted(p, "qwen_response") =>
                  \E j \in Returns(QWEN) : j < p /\ events[j].ret = events[p].text
        /\ \A p \in DOMAIN events :
              IsPrinted(p, "pi_response") =>
                  \E j \in Returns(PI) :
                      /\ j < p
                      /\ events[j].exc = "none"
                      /\ events[j].ret # PyNone
                      /\ events[p].text = events[j].ret
        /\ (pc = "prompt" /\ Reads # {}) =>
              \/ QwenReturnedNone
              \/ \E j \in Returns(PI) : events[j].exc = "none"

C9_Witness ==
    /\ Session
    /\ pc = "prompt"
    /\ \E p \in DOMAIN events : IsPrinted(p, "pi_response")
    /\ \E i \in Calls(PI) : events[i].args[1] = PyStr(<<"P","a","r","i","s">>)

====
